---- MODULE Spec2Model ----
(***************************************************************************)
(* Model of the two Flask entry modules app_minimal.py and app_safe.py:    *)
(* the component bootstrap (safe_import_and_init) and the /demo-ask        *)
(* handler (demo_ask).  Text is modelled as a sequence of words, so that   *)
(* the substring test against the generic-failure marker and the f-string  *)
(* prefixes are computed, not assumed.  Non-ASCII letters of the source    *)
(* literals are transliterated.                                            *)
(***************************************************************************)
EXTENDS Integers, Sequences, FiniteSets, TLC

\* number of requests served after bootstrap (may interleave)
MaxRequests == 2

Requests == 1..MaxRequests

None == "None"

Apps == {"minimal", "safe"}

\* the subsystems each module constructs, in the order of its constructor calls
Order(a) ==
  IF a = "safe"
    THEN <<"file_manager", "knowledge_base", "user_manager", "ai_assistant">>
    ELSE <<"file_manager", "knowledge_base", "ai_assistant">>

Pos(a, s) == CHOOSE i \in 1..Len(Order(a)) : Order(a)[i] = s

After(a, s) == { Order(a)[j] : j \in (Pos(a, s) + 1)..Len(Order(a)) }

Subsystems(a) == { Order(a)[i] : i \in 1..Len(Order(a)) }

(***************************************************************************)
(* Text                                                                    *)
(***************************************************************************)
\* "texniki problem var"
Marker == <<"texniki", "problem", "var">>

\* Python's `sub in s` on strings, at word granularity
Contains(sub, s) ==
  \E i \in 0..(Len(s) - Len(sub)) : SubSeq(s, i + 1, i + Len(sub)) = sub

\* texts the AI client may return
AITexts ==
  { <<>>,
    <<"cavab">>,
    <<"texniki", "problem">>,
    <<"Bagislayin">> \o Marker }

\* texts knowledge_base.search may return
KBTexts == { <<>>, <<"Is", "saatlari", "09:00-18:00">> }

\* what a call into the AI client or the knowledge index does: it raises, or
\* it returns a text
Raises == [fault |-> TRUE, text |-> <<>>]

Returns(texts) == { [fault |-> FALSE, text |-> t] : t \in texts }

AIOutcomes == {Raises} \cup Returns(AITexts)

\* f"Tapilan melumatlar:\n\n{kb_response}"
FoundPrefix == <<"Tapilan", "melumatlar:">>

\* f"Melumat bazasindan tapilan neticeler:\n\n{kb_response}"
DirectPrefix == <<"Melumat", "bazasindan", "tapilan", "neticeler:">>

\* str(e) of the fault raised at a call site
Message(site) == <<"fault", "in", site>>

\* f"Xeta bas verdi: AI Error: {str(ai_error)}, KB Error: {str(kb_error)}"
Diagnostic(ai_error, kb_error) ==
  <<"Xeta", "bas", "verdi:", "AI", "Error:">> \o Message(ai_error)
    \o <<",", "KB", "Error:">> \o Message(kb_error)

(***************************************************************************)
(* State                                                                   *)
(***************************************************************************)
VARIABLES
  app,               \* which entry module is deployed
  bpc,               \* position of safe_import_and_init
  file_manager, knowledge_base, user_manager, ai_assistant,
  components_ready,  \* "unset" until safe_import_and_init has returned
  attempted,         \* subsystems whose initialisation step was reached
  failed,            \* subsystems whose initialisation step did not give an instance
  wasReady,          \* subsystems that held an instance at some point
  ai_init,           \* the credential read, whether EnhancedAIAssistant(...)
                     \* was invoked, and the reason printed for a missing assistant
  req                \* per request: position and locals of the handler

slots == <<file_manager, knowledge_base, user_manager, ai_assistant>>

history == <<attempted, failed, wasReady, ai_init>>

vars == <<app, bpc, file_manager, knowledge_base, user_manager, ai_assistant,
          components_ready, attempted, failed, wasReady, ai_init, req>>

Slot(s) ==
  CASE s = "file_manager" -> file_manager
    [] s = "knowledge_base" -> knowledge_base
    [] s = "user_manager" -> user_manager
    [] s = "ai_assistant" -> ai_assistant

Ready(s) == Slot(s) # None

NewRequest ==
  [pc |-> "idle", status |-> 0, kind |-> None, response |-> <<>>,
   ai_error |-> None, kb_error |-> None, calls |-> <<>>, tier_used |-> None,
   body |-> <<>>]

Init ==
  /\ app \in Apps
  /\ bpc = "import"
  /\ file_manager = None
  /\ knowledge_base = None
  /\ user_manager = None
  /\ ai_assistant = None
  /\ components_ready = "unset"
  /\ attempted = {}
  /\ failed = {}
  /\ wasReady = {}
  /\ ai_init = [credential |-> "unread", constructed |-> FALSE, reason |-> None]
  /\ req = [r \in Requests |-> NewRequest]

(***************************************************************************)
(* Bootstrap: safe_import_and_init                                         *)
(***************************************************************************)
\* the except clauses without the try blocks of user_manager and ai_assistant
BootCatchNoInner(a, step) == "outer"

\* the except clause that would catch every fault of the bootstrap in a try
\* block of its own
BootCatchAllInner(a, step) == "inner"

\* the except clauses without the outer one
BootCatchNoOuter(a, step) ==
  CASE step = "user_manager" -> "inner"
    [] step = "ai_assistant" -> "inner"
    [] OTHER -> "none"

\* the except clause that catches a fault raised at a step of the bootstrap
BootCatch(a, step) ==
  CASE step = "user_manager" -> "inner"
    [] step = "ai_assistant" -> "inner"
    [] OTHER -> "outer"

\* what the outer except clause returns
CriticalReturnTrue == TRUE

CriticalReturn == FALSE

\* where the outer except clause goes: app_safe tries a fallback file manager
\* before returning, app_minimal returns at once
Critical(a) ==
  IF a = "safe"
    THEN /\ bpc' = "fallback"
         /\ components_ready' = components_ready
    ELSE /\ bpc' = "done"
         /\ components_ready' = CriticalReturn

\* the statement after a step of the try block
NextStep(a, step) ==
  CASE step = "import" -> "makedirs"
    [] step = "makedirs" -> "file_manager"
    [] step = "file_manager" -> "knowledge_base"
    [] step = "knowledge_base" -> IF a = "safe" THEN "user_manager" ELSE "ai_assistant"
    [] step = "user_manager" -> "ai_assistant"

\* control goes on behind a step; behind the last one the function returns True
Proceed(a, step) ==
  IF step = "ai_assistant"
    THEN /\ bpc' = "done"
         /\ components_ready' = TRUE
    ELSE /\ bpc' = NextStep(a, step)
         /\ components_ready' = components_ready

\* a fault raised at a step unwinds to the except clause that catches it; a
\* fault that no clause catches leaves safe_import_and_init, and the module
\* import with it
Unwind(a, step) ==
  CASE BootCatch(a, step) = "inner" -> Proceed(a, step)
    [] BootCatch(a, step) = "outer" -> Critical(a)
    [] OTHER -> /\ bpc' = "raised"
                /\ components_ready' = components_ready

\* the imports at the head of the try block
BootImport ==
  /\ bpc = "import"
  /\ \E ok \in BOOLEAN :
       IF ok THEN Proceed(app, "import") ELSE Unwind(app, "import")
  /\ UNCHANGED <<app, slots, history, req>>

\* os.makedirs('/tmp/documents'), os.makedirs('/tmp')
BootMakedirs ==
  /\ bpc = "makedirs"
  /\ \E ok \in BOOLEAN :
       IF ok THEN Proceed(app, "makedirs") ELSE Unwind(app, "makedirs")
  /\ UNCHANGED <<app, slots, history, req>>

\* file_manager = FileManager()
InitFileManager ==
  /\ bpc = "file_manager"
  /\ attempted' = attempted \cup {"file_manager"}
  /\ \E ok \in BOOLEAN :
       IF ok
         THEN /\ file_manager' = "FileManager"
              /\ wasReady' = wasReady \cup {"file_manager"}
              /\ failed' = failed
              /\ Proceed(app, "file_manager")
         ELSE /\ file_manager' = file_manager
              /\ wasReady' = wasReady
              /\ failed' = failed \cup {"file_manager"}
              /\ Unwind(app, "file_manager")
  /\ UNCHANGED <<app, knowledge_base, user_manager, ai_assistant, ai_init, req>>

\* knowledge_base = EnhancedKnowledgeBase(file_manager)
InitKnowledgeBase ==
  /\ bpc = "knowledge_base"
  /\ attempted' = attempted \cup {"knowledge_base"}
  /\ \E ok \in BOOLEAN :
       IF ok
         THEN /\ knowledge_base' = "EnhancedKnowledgeBase"
              /\ wasReady' = wasReady \cup {"knowledge_base"}
              /\ failed' = failed
              /\ Proceed(app, "knowledge_base")
         ELSE /\ knowledge_base' = knowledge_base
              /\ wasReady' = wasReady
              /\ failed' = failed \cup {"knowledge_base"}
              /\ Unwind(app, "knowledge_base")
  /\ UNCHANGED <<app, file_manager, user_manager, ai_assistant, ai_init, req>>

\* app_safe only: user_manager = UserManager() in its own try block, whose
\* except clause sets user_manager = None
InitUserManager ==
  /\ bpc = "user_manager"
  /\ attempted' = attempted \cup {"user_manager"}
  /\ \E ok \in BOOLEAN :
       IF ok
         THEN /\ user_manager' = "UserManager"
              /\ wasReady' = wasReady \cup {"user_manager"}
              /\ failed' = failed
              /\ Proceed(app, "user_manager")
         ELSE /\ failed' = failed \cup {"user_manager"}
              /\ wasReady' = wasReady
              /\ user_manager' = IF BootCatch(app, "user_manager") = "inner"
                                   THEN None ELSE user_manager
              /\ Unwind(app, "user_manager")
  /\ UNCHANGED <<app, file_manager, knowledge_base, ai_assistant, ai_init, req>>

\* values of os.environ.get('GEMINI_API_KEY'): unset, empty, a key
Credentials == {None, "", "key"}

\* `if api_key`
KeyConfiguredAlways(api_key) == TRUE

KeyConfigured(api_key) == api_key \notin {None, ""}

\* print("GEMINI_API_KEY not found")
KeyNotFound == "GEMINI_API_KEY not found"

\* print(f"AI assistant failed: {e}")
AssistantFailed == "AI assistant failed"

\* api_key = os.environ.get('GEMINI_API_KEY'); EnhancedAIAssistant(knowledge_base, api_key)
\* in its own try block; then return True
InitAIAssistant ==
  /\ bpc = "ai_assistant"
  /\ attempted' = attempted \cup {"ai_assistant"}
  /\ \E api_key \in Credentials, ok \in BOOLEAN :
       IF ~KeyConfigured(api_key)
         THEN /\ ai_assistant' = None
              /\ ai_init' = [credential |-> api_key, constructed |-> FALSE,
                             reason |-> KeyNotFound]
              /\ failed' = failed \cup {"ai_assistant"}
              /\ wasReady' = wasReady
              /\ Proceed(app, "ai_assistant")
         ELSE IF ok
           THEN /\ ai_assistant' = "EnhancedAIAssistant"
                /\ ai_init' = [credential |-> api_key, constructed |-> TRUE,
                               reason |-> None]
                /\ wasReady' = wasReady \cup {"ai_assistant"}
                /\ failed' = failed
                /\ Proceed(app, "ai_assistant")
           ELSE /\ ai_init' = [credential |-> api_key, constructed |-> TRUE,
                               reason |-> IF BootCatch(app, "ai_assistant") = "inner"
                                            THEN AssistantFailed ELSE None]
                /\ failed' = failed \cup {"ai_assistant"}
                /\ wasReady' = wasReady
                /\ ai_assistant' = IF BootCatch(app, "ai_assistant") = "inner"
                                     THEN None ELSE ai_assistant
                /\ Unwind(app, "ai_assistant")
  /\ UNCHANGED <<app, file_manager, knowledge_base, user_manager, req>>

\* app_safe only, in the outer except clause: import FileManager again and
\* construct it, in a try block of its own; then return False
Fallback ==
  /\ bpc = "fallback"
  /\ \E outcome \in {"import_fault", "fault", "ok"} :
       /\ attempted' = IF outcome = "import_fault" THEN attempted
                       ELSE attempted \cup {"file_manager"}
       /\ file_manager' = IF outcome = "ok" THEN "FileManager" ELSE file_manager
       /\ wasReady' = IF outcome = "ok" THEN wasReady \cup {"file_manager"}
                      ELSE wasReady
  /\ failed' = failed
  /\ components_ready' = CriticalReturn
  /\ bpc' = "done"
  /\ UNCHANGED <<app, knowledge_base, user_manager, ai_assistant, ai_init, req>>

Bootstrap ==
  \/ BootImport
  \/ BootMakedirs
  \/ InitFileManager
  \/ InitKnowledgeBase
  \/ InitUserManager
  \/ InitAIAssistant
  \/ Fallback

(***************************************************************************)
(* /demo-ask: demo_ask                                                     *)
(***************************************************************************)
\* what request.get_json() gives: a fault, a body without 'question', a question
Bodies == {"invalid", "missing", "question"}

\* the tier a call site belongs to
TierOf(site) ==
  CASE site = "generate_enhanced_response" -> "PrimaryAI"
    [] site = "ask_question" -> "PrimaryAI"
    [] site = "generate_response" -> "SecondaryAI"
    [] site = "search_try" -> "KnowledgeSearch"
    [] site = "search_except" -> "KnowledgeSearch"
    [] OTHER -> None

\* the method a call site invokes
MethodOf(site) ==
  IF site \in {"search_try", "search_except"} THEN "search" ELSE site

\* `if not ai_assistant` is not taken
AIAvailableAlways(ai) == TRUE

AIAvailable(ai) == ai # None

\* `"texniki problem var" in response`
IsGenericAlways(response) == TRUE

IsGeneric(response) == Contains(Marker, response)

\* the except clause that catches a fault raised at a call site of demo_ask
AskCatchNoKbTry(a, site) ==
  CASE a = "minimal" /\ site \in {"generate_enhanced_response", "generate_response",
                                  "search_try"} -> "ai_error"
    [] OTHER -> "outer"

AskCatchSecondaryFirst(a, site) ==
  CASE a = "minimal" /\ site = "generate_enhanced_response" -> "retry_simple"
    [] a = "minimal" /\ site \in {"generate_response", "search_try"} -> "ai_error"
    [] a = "minimal" /\ site = "search_except" -> "kb_error"
    [] OTHER -> "outer"

AskCatch(a, site) ==
  CASE a = "minimal" /\ site \in {"generate_enhanced_response", "generate_response",
                                  "search_try"} -> "ai_error"
    [] a = "minimal" /\ site = "search_except" -> "kb_error"
    [] OTHER -> "outer"

\* status code of the final `return jsonify({... 'answer': response ...})`
AnswerStatus(tier) == 200

\* return jsonify({'question': ..., 'answer': response, ...})
Answer(q) ==
  [q EXCEPT !.status = AnswerStatus(q.tier_used), !.kind = "answer", !.pc = "done"]

\* return jsonify({'error': ...}), code
ErrorResponse(q, code) ==
  [q EXCEPT !.status = code, !.kind = "error", !.pc = "done"]

\* a fault raised at a call site unwinds to the except clause that catches it
Raise(q, site) ==
  LET c == AskCatch(app, site) IN
  CASE c = "ai_error" -> [q EXCEPT !.ai_error = site, !.pc = "kb_except"]
    [] c = "retry_simple" -> [q EXCEPT !.ai_error = site, !.pc = "secondary"]
    [] c = "kb_error" ->
         Answer([q EXCEPT !.kb_error = site,
                          !.response = Diagnostic(q.ai_error, site),
                          !.tier_used = "Failed"])
    [] c = "outer" -> ErrorResponse(q, 500)
    [] OTHER -> [q EXCEPT !.pc = "crashed"]

\* how a call ended, as the caller can tell it
Result(out) ==
  IF out.fault THEN "fault"
  ELSE IF Contains(Marker, out.text) THEN "marker" ELSE "ok"

\* the request's record of the call made at a site and of what came back
Invoke(q, site, out) ==
  [q EXCEPT !.calls = Append(q.calls,
     [method |-> MethodOf(site), result |-> Result(out), text |-> out.text])]

\* f"<prefix>\n\n{kb_response}"
FramedNoPrefix(prefix, kb_response) == kb_response

Framed(prefix, kb_response) == prefix \o kb_response

\* what knowledge_base.search(question) can do
SearchOutcomes ==
  IF knowledge_base = None THEN {Raises} ELSE {Raises} \cup Returns(KBTexts)

\* entry of demo_ask: availability check, request.get_json(), 'question' check
DemoAskBegin(r) ==
  /\ bpc = "done"
  /\ req[r].pc = "idle"
  /\ \E body \in Bodies :
       req' = [req EXCEPT ![r] =
         IF ~AIAvailable(ai_assistant) THEN ErrorResponse(@, 503)
         ELSE IF body = "invalid" THEN Raise(@, "get_json")
         ELSE IF body = "missing" THEN ErrorResponse(@, 400)
         ELSE [@ EXCEPT !.pc = IF app = "minimal" THEN "primary" ELSE "ask"]]
  /\ UNCHANGED <<app, bpc, slots, components_ready, history>>

\* app_minimal: response = ai_assistant.generate_enhanced_response(question, demo_user_info)
\* and the two marker tests when it returns
CallPrimary(r) ==
  /\ req[r].pc = "primary"
  /\ \E out \in AIOutcomes :
       LET q == Invoke(req[r], "generate_enhanced_response", out) IN
       req' = [req EXCEPT ![r] =
         IF out.fault THEN Raise(q, "generate_enhanced_response")
         ELSE LET q1 == [q EXCEPT !.response = out.text, !.tier_used = "PrimaryAI"] IN
              IF IsGeneric(out.text) THEN [q1 EXCEPT !.pc = "secondary"] ELSE Answer(q1)]
  /\ UNCHANGED <<app, bpc, slots, components_ready, history>>

\* app_minimal: response = ai_assistant.generate_response(question, demo_user_info)
\* and the second marker test when it returns
CallSecondary(r) ==
  /\ req[r].pc = "secondary"
  /\ \E out \in AIOutcomes :
       LET q == Invoke(req[r], "generate_response", out) IN
       req' = [req EXCEPT ![r] =
         IF out.fault THEN Raise(q, "generate_response")
         ELSE LET q1 == [q EXCEPT !.response = out.text, !.tier_used = "SecondaryAI"] IN
              IF IsGeneric(out.text) THEN [q1 EXCEPT !.pc = "kb_try"] ELSE Answer(q1)]
  /\ UNCHANGED <<app, bpc, slots, components_ready, history>>

\* app_minimal, inside the try block: kb_response = knowledge_base.search(question)
CallSearchTry(r) ==
  /\ req[r].pc = "kb_try"
  /\ \E out \in SearchOutcomes :
       LET q == Invoke(req[r], "search_try", out) IN
       req' = [req EXCEPT ![r] =
         IF out.fault THEN Raise(q, "search_try")
         ELSE Answer([q EXCEPT !.response = Framed(FoundPrefix, out.text),
                               !.tier_used = "KnowledgeSearch"])]
  /\ UNCHANGED <<app, bpc, slots, components_ready, history>>

\* app_minimal, inside `except Exception as ai_error`:
\* kb_response = knowledge_base.search(question)
CallSearchExcept(r) ==
  /\ req[r].pc = "kb_except"
  /\ \E out \in SearchOutcomes :
       LET q == Invoke(req[r], "search_except", out) IN
       req' = [req EXCEPT ![r] =
         IF out.fault THEN Raise(q, "search_except")
         ELSE Answer([q EXCEPT !.response = Framed(DirectPrefix, out.text),
                               !.tier_used = "KnowledgeSearch"])]
  /\ UNCHANGED <<app, bpc, slots, components_ready, history>>

\* app_safe: response = ai_assistant.ask_question(question)
CallAskQuestion(r) ==
  /\ req[r].pc = "ask"
  /\ \E out \in AIOutcomes :
       LET q == Invoke(req[r], "ask_question", out) IN
       req' = [req EXCEPT ![r] =
         IF out.fault THEN Raise(q, "ask_question")
         ELSE Answer([q EXCEPT !.response = out.text, !.tier_used = "PrimaryAI"])]
  /\ UNCHANGED <<app, bpc, slots, components_ready, history>>

DemoAsk(r) ==
  \/ DemoAskBegin(r)
  \/ CallPrimary(r)
  \/ CallSecondary(r)
  \/ CallSearchTry(r)
  \/ CallSearchExcept(r)
  \/ CallAskQuestion(r)

\* the faults the handler holds when it returns, in the order it caught them
Errors(q) ==
  (IF q.ai_error = None THEN <<>>
   ELSE <<[tier |-> TierOf(q.ai_error), label |-> "AI Error",
           message |-> Message(q.ai_error)]>>)
  \o
  (IF q.kb_error = None THEN <<>>
   ELSE <<[tier |-> TierOf(q.kb_error), label |-> "KB Error",
           message |-> Message(q.kb_error)]>>)

\* how often a request invoked a method
Count(q, method) ==
  Cardinality({ i \in 1..Len(q.calls) : q.calls[i].method = method })

Called(q, method) == Count(q, method) > 0

\* the call of a method ended in a fault or in a text with the marker
Unacceptable(q, method) ==
  \E i \in 1..Len(q.calls) :
    q.calls[i].method = method /\ q.calls[i].result \in {"fault", "marker"}

ResultOf(q, method, result) ==
  \E i \in 1..Len(q.calls) :
    q.calls[i].method = method /\ q.calls[i].result = result

Last(seq) == seq[Len(seq)]

EndsWith(s, t) ==
  Len(s) >= Len(t) /\ SubSeq(s, Len(s) - Len(t) + 1, Len(s)) = t

(***************************************************************************)
(* The handlers that report the state: /, /health, /demo, /test-components *)
(***************************************************************************)
\* a boolean as jsonify writes it
Py(b) == IF b THEN "True" ELSE "False"

\* return jsonify({...}) of a reporting handler, status 200
Report(q, route, body) ==
  [q EXCEPT !.status = 200, !.kind = route, !.body = body, !.pc = "done"]

\* a handler that would declare components_ready global and compute it anew
IndexRecomputesReady(r) ==
  /\ bpc = "done"
  /\ req[r].pc = "idle"
  /\ components_ready' = (\A s \in Subsystems(app) : Ready(s))
  /\ req' = [req EXCEPT ![r] = Report(@, "index", <<Py(components_ready')>>)]
  /\ UNCHANGED <<app, bpc, slots, history>>

\* index: 'components_ready': components_ready
Index(r) ==
  /\ bpc = "done"
  /\ req[r].pc = "idle"
  /\ req' = [req EXCEPT ![r] = Report(@, "index", <<Py(components_ready)>>)]
  /\ UNCHANGED <<app, bpc, slots, components_ready, history>>

\* health_check: 'components': {name: slot is not None, ..., components_ready}
HealthCheck(r) ==
  /\ bpc = "done"
  /\ req[r].pc = "idle"
  /\ req' = [req EXCEPT ![r] = Report(@, "health",
       <<Py(file_manager # None), Py(knowledge_base # None),
         Py(user_manager # None), Py(ai_assistant # None),
         Py(components_ready)>>)]
  /\ UNCHANGED <<app, bpc, slots, components_ready, history>>

\* demo_access: status, ai_available, knowledge_base_ready
DemoAccess(r) ==
  /\ bpc = "done"
  /\ req[r].pc = "idle"
  /\ req' = [req EXCEPT ![r] = Report(@, "demo",
       IF app = "minimal"
         THEN <<IF ai_assistant # None THEN "ready" ELSE "limited",
                Py(ai_assistant # None), Py(knowledge_base # None)>>
         ELSE IF knowledge_base # None /\ ai_assistant # None
           THEN <<"ready", Py(TRUE), Py(TRUE)>>
           ELSE <<"partial", Py(ai_assistant # None), Py(knowledge_base # None)>>)]
  /\ UNCHANGED <<app, bpc, slots, components_ready, history>>

\* results[name] of test_components
Tested(slot) == IF slot # None THEN "working" ELSE "not_initialized"

\* test_components: 'component_tests': results
TestComponents(r) ==
  /\ bpc = "done"
  /\ req[r].pc = "idle"
  /\ req' = [req EXCEPT ![r] = Report(@, "test-components",
       <<Tested(file_manager), Tested(knowledge_base),
         Tested(user_manager), Tested(ai_assistant)>>)]
  /\ UNCHANGED <<app, bpc, slots, components_ready, history>>

Reporting(r) ==
  \/ Index(r)
  \/ HealthCheck(r)
  \/ DemoAccess(r)
  \/ TestComponents(r)

Next ==
  \/ Bootstrap
  \/ \E r \in Requests : DemoAsk(r)
  \/ \E r \in Requests : Reporting(r)

Spec == Init /\ [][Next]_vars

(***************************************************************************)
(* Properties                                                              *)
(***************************************************************************)
Optional == {"user_manager", "ai_assistant"}

Required == {"file_manager", "knowledge_base"}

StillReady == \A s \in wasReady : Ready(s)

\* C1 as stated: when the bootstrap has returned, every subsystem after a
\* failed one was still attempted, and every subsystem that was Ready is Ready.
C1_FailureNeverAborts ==
  bpc = "done" =>
    /\ \A k \in failed : After(app, k) \subseteq attempted
    /\ StillReady

\* C1 amended: a failure of the user store or of the AI client does not stop
\* the sequence (every later subsystem is attempted); a failure of the
\* document store or of the knowledge index ends it (no later subsystem is
\* attempted); in both cases every subsystem that was Ready stays Ready.
C1_OnlyOptionalFailuresIsolated ==
  bpc = "done" =>
    /\ \A k \in failed \cap Optional : After(app, k) \subseteq attempted
    /\ \A k \in failed \cap Required : After(app, k) \cap attempted = {}
    /\ StillReady

C1_Witness ==
  /\ bpc = "done"
  /\ "user_manager" \in failed
  /\ "ai_assistant" \in attempted
  /\ Ready("file_manager")
  /\ Ready("knowledge_base")

\* C2: when the bootstrap has returned, components_ready is true exactly when
\* file_manager and knowledge_base both hold an instance, whatever became of
\* user_manager and ai_assistant.
C2_ComponentsReadyIff ==
  bpc = "done" =>
    (components_ready <=> (Ready("file_manager") /\ Ready("knowledge_base")))

C2_Witness ==
  /\ bpc = "done"
  /\ app = "safe"
  /\ components_ready = TRUE
  /\ ~Ready("user_manager")
  /\ ~Ready("ai_assistant")

Finished(q) == q.pc = "done"

\* a request that demo_ask has answered
Asked(q) == Finished(q) /\ q.kind \in {"answer", "error"}

\* C3 as stated: a request resolved while ai_assistant is not Ready invokes
\* neither AI method and is answered from the knowledge search.
C3_NotReadyGoesToSearch ==
  \A r \in Requests :
    (Asked(req[r]) /\ ~Ready("ai_assistant")) =>
      /\ ~Called(req[r], "generate_enhanced_response")
      /\ ~Called(req[r], "generate_response")
      /\ Called(req[r], "search")
      /\ req[r].tier_used = "KnowledgeSearch"

\* C3 amended: a request resolved while ai_assistant is not Ready invokes
\* neither AI method nor the knowledge search: it is refused with status 503
\* and carries no answer.
C3_NotReadyRefused ==
  \A r \in Requests :
    (Asked(req[r]) /\ ~Ready("ai_assistant")) =>
      /\ req[r].calls = <<>>
      /\ req[r].status = 503
      /\ req[r].kind = "error"
      /\ req[r].tier_used = None

C3_Witness ==
  \E r \in Requests :
    /\ Asked(req[r])
    /\ ~Ready("ai_assistant")
    /\ Ready("knowledge_base")

Before(q, m1, m2) ==
  \E i, j \in 1..Len(q.calls) :
    i < j /\ q.calls[i].method = m1 /\ q.calls[j].method = m2

\* C4 as stated: a tier is attempted only if every earlier tier was attempted
\* and was unacceptable (marker or fault); when the first AI call raises, the
\* second AI call is attempted before the knowledge search.
C4_TierOnlyAfterEarlierTiers ==
  \A r \in Requests :
    LET q == req[r] IN
    /\ Called(q, "generate_response") =>
         Unacceptable(q, "generate_enhanced_response")
    /\ Called(q, "search") =>
         /\ Unacceptable(q, "generate_enhanced_response")
         /\ Unacceptable(q, "generate_response")
         /\ Before(q, "generate_response", "search")

\* C4 amended: the second AI call is attempted only after the first returned
\* a text with the marker; the knowledge search is attempted only after the
\* first AI call raised, or after the first returned the marker and the second
\* was unacceptable; after a fault of the first AI call the second is never
\* attempted.
C4_TierOrder ==
  \A r \in Requests :
    LET q == req[r] IN
    /\ Called(q, "generate_response") =>
         ResultOf(q, "generate_enhanced_response", "marker")
    /\ Called(q, "search") =>
         \/ ResultOf(q, "generate_enhanced_response", "fault")
         \/ /\ ResultOf(q, "generate_enhanced_response", "marker")
            /\ Unacceptable(q, "generate_response")
            /\ Before(q, "generate_response", "search")
    /\ ResultOf(q, "generate_enhanced_response", "fault") =>
         ~Called(q, "generate_response")

C4_Witness ==
  \E r \in Requests :
    /\ Finished(req[r])
    /\ ResultOf(req[r], "generate_enhanced_response", "fault")
    /\ Called(req[r], "search")
    /\ Ready("ai_assistant")

\* both AI calls were made and were unacceptable, and the last knowledge
\* search returned a text
BothUnacceptableSearchReturned(q) ==
  /\ Finished(q)
  /\ Unacceptable(q, "generate_enhanced_response")
  /\ Unacceptable(q, "generate_response")
  /\ Last(q.calls).method = "search"
  /\ Last(q.calls).result # "fault"

\* the answer is the text of the last knowledge search behind a non-empty prefix
FramedSearchText(q) ==
  /\ EndsWith(q.response, Last(q.calls).text)
  /\ Len(q.response) > Len(Last(q.calls).text)

\* C5 as stated: both AI calls unacceptable and the knowledge search returns:
\* the tier is KnowledgeSearch, the answer is the framed search text and
\* errors has exactly two entries.
C5_SearchAnswerTwoErrors ==
  \A r \in Requests :
    BothUnacceptableSearchReturned(req[r]) =>
      /\ req[r].tier_used = "KnowledgeSearch"
      /\ FramedSearchText(req[r])
      /\ Len(Errors(req[r])) = 2

\* C5 amended: both AI calls unacceptable and the knowledge search returns:
\* the tier is KnowledgeSearch and the answer is the framed search text; a
\* marker text leaves no entry in errors, which holds one entry if a call of
\* the resolution raised and none otherwise.
C5_SearchAnswerAtMostOneError ==
  \A r \in Requests :
    BothUnacceptableSearchReturned(req[r]) =>
      /\ req[r].tier_used = "KnowledgeSearch"
      /\ req[r].kind = "answer"
      /\ FramedSearchText(req[r])
      /\ Len(Errors(req[r])) =
           IF \E i \in 1..Len(req[r].calls) : req[r].calls[i].result = "fault"
             THEN 1 ELSE 0

C5_Witness ==
  \E r \in Requests :
    /\ BothUnacceptableSearchReturned(req[r])
    /\ ResultOf(req[r], "generate_response", "marker")
    /\ Last(req[r].calls).text # <<>>
    /\ Len(req[r].calls) = 3

\* C6: both AI calls unacceptable and a knowledge search raises: the tier is
\* Failed and errors has three entries, for PrimaryAI, SecondaryAI and
\* KnowledgeSearch in this order.
C6_FailedThreeErrors ==
  \A r \in Requests :
    LET q == req[r] IN
    (/\ Finished(q)
     /\ Unacceptable(q, "generate_enhanced_response")
     /\ Unacceptable(q, "generate_response")
     /\ ResultOf(q, "search", "fault")) =>
      /\ q.tier_used = "Failed"
      /\ Len(Errors(q)) = 3
      /\ [i \in 1..Len(Errors(q)) |-> Errors(q)[i].tier]
           = <<"PrimaryAI", "SecondaryAI", "KnowledgeSearch">>

Methods == {"generate_enhanced_response", "generate_response", "search"}

\* C7: a request invokes each of generate_enhanced_response, generate_response
\* and knowledge_base.search at most once.
C7_EachTierAtMostOnce ==
  \A r \in Requests : \A m \in Methods : Count(req[r], m) <= 1

C9_AnswerNonEmpty ==
  \A r \in Requests :
    (Finished(req[r]) /\ req[r].kind = "answer") => req[r].response # <<>>

\* C9 amended: an answer of tier KnowledgeSearch or Failed is a non-empty text;
\* an answer of an AI tier is the text the AI call returned, as it is, so it
\* is empty when that text is empty.
C9_AnswerNonEmptyUnlessAIText ==
  \A r \in Requests :
    LET q == req[r] IN
    (Finished(q) /\ q.kind = "answer") =>
      /\ q.tier_used \in {"KnowledgeSearch", "Failed"} => q.response # <<>>
      /\ q.tier_used \in {"PrimaryAI", "SecondaryAI"} =>
           (Last(q.calls).result # "fault" /\ q.response = Last(q.calls).text)

C9_Witness ==
  \E r \in Requests :
    /\ Finished(req[r])
    /\ req[r].tier_used = "KnowledgeSearch"
    /\ Last(req[r].calls).text = <<>>
    /\ req[r].response # <<>>

\* C10: a resolution of tier Failed is answered with a server error, one of
\* any other tier with a success carrying the answer.
C10_FailedIsServerError ==
  \A r \in Requests :
    LET q == req[r] IN
    Finished(q) =>
      /\ q.tier_used = "Failed" => q.status >= 500
      /\ q.tier_used \in {"PrimaryAI", "SecondaryAI", "KnowledgeSearch"} =>
           (q.status = 200 /\ q.kind = "answer")

\* C11 as stated: safe_import_and_init never raises, it returns a boolean, and
\* every subsystem whose construction failed is left not Ready.
C11_NeverRaisesFailedNotReady ==
  /\ bpc # "raised"
  /\ bpc = "done" =>
       /\ components_ready \in BOOLEAN
       /\ \A s \in failed : ~Ready(s)

\* C11 amended: safe_import_and_init never raises and always returns a
\* boolean; a subsystem whose construction failed is left not Ready, except
\* the document store of app_safe, which the fallback constructs again: it is
\* Ready when that succeeds, and components_ready is False then.
C11_NeverRaisesFailedNotReadyButFallback ==
  /\ bpc # "raised"
  /\ bpc # "done" => ENABLED Bootstrap
  /\ bpc = "done" =>
       /\ components_ready \in BOOLEAN
       /\ \A s \in failed \ {"file_manager"} : ~Ready(s)
       /\ ("file_manager" \in failed /\ Ready("file_manager")) =>
            (app = "safe" /\ components_ready = FALSE)

C11_Witness ==
  /\ bpc = "done"
  /\ "knowledge_base" \in failed
  /\ ~Ready("knowledge_base")
  /\ components_ready = FALSE

C13_ReadOnlyAfterBootstrap ==
  [][bpc = "done" =>
       /\ slots' = slots
       /\ components_ready' = components_ready
       /\ bpc' = "done"]_vars

C13_Witness ==
  \E r1, r2 \in Requests :
    /\ r1 # r2
    /\ Finished(req[r1])
    /\ req[r1].kind \in {"index", "health", "demo", "test-components"}
    /\ req[r2].pc = "kb_except"
    /\ Ready("ai_assistant")

\* the first call of the request was the first AI call and it returned a text
\* without the marker
PrimaryReturnedUsable(q) ==
  /\ Finished(q)
  /\ Len(q.calls) >= 1
  /\ q.calls[1].method \in {"generate_enhanced_response", "ask_question"}
  /\ q.calls[1].result = "ok"

\* C14: when the first AI call returns a text without the marker, the answer
\* is that text, no other call is made and no fault is held.
C14_PrimaryShortCircuits ==
  \A r \in Requests :
    PrimaryReturnedUsable(req[r]) =>
      /\ req[r].response = req[r].calls[1].text
      /\ Len(req[r].calls) = 1
      /\ Errors(req[r]) = <<>>
      /\ req[r].tier_used = "PrimaryAI"
      /\ req[r].kind = "answer"
      /\ req[r].status = 200

C14_Witness ==
  \E r \in Requests :
    /\ PrimaryReturnedUsable(req[r])
    /\ app = "minimal"
    /\ req[r].calls[1].text = <<"texniki", "problem">>

\* C15: ai_assistant holds an instance only if file_manager and knowledge_base
\* do, and then components_ready is True once the bootstrap has returned; so
\* knowledge_base holds an instance whenever demo_ask is at, or has made, a
\* knowledge search.
C15_AssistantImpliesKnowledgeBase ==
  /\ Ready("ai_assistant") =>
       /\ Ready("file_manager")
       /\ Ready("knowledge_base")
       /\ bpc = "done" => components_ready = TRUE
  /\ \A r \in Requests :
       (req[r].pc \in {"kb_try", "kb_except"} \/ Called(req[r], "search")) =>
         knowledge_base # None

C15_Witness ==
  \E r \in Requests :
    /\ Finished(req[r])
    /\ Called(req[r], "search")
    /\ knowledge_base # None
    /\ components_ready = TRUE
====
